---- MODULE Spec2Model ----
(***************************************************************************)
(* Model of tools/build_my_configs.py (iron-skillet): the interactive      *)
(* credential prompt, the per-mode render loop of replace_variables, the   *)
(* archive directory bootstrap of myconfig_newdir and template_save with   *)
(* its one-time copy of my_variables.py.                                   *)
(*                                                                         *)
(* The filesystem is a set of directory paths plus a set of written files; *)
(* the template root is a set of template ids that exist.  Both are        *)
(* environment inputs chosen in Init.                                      *)
(***************************************************************************)
EXTENDS Integers, Sequences, FiniteSets, TLC

VARIABLES pc, modes, modeIdx, snippet_dict, entryIdx, element, myconfig_path,
          dirs, files, templates, importable, xmlvar,
          password1, password2, passwordmatch, rounds,
          exitStatus, log, newdirLog, provCopies

vars == <<pc, modes, modeIdx, snippet_dict, entryIdx, element, myconfig_path,
          dirs, files, templates, importable, xmlvar,
          password1, password2, passwordmatch, rounds,
          exitStatus, log, newdirLog, provCopies>>

(***************************************************************************)
(* Bounds                                                                  *)
(***************************************************************************)
\* entries in each mode's load-order dict
NumEntries == 2
\* the round counter (a history variable) saturates here; prompting itself is unbounded
MaxRounds == 2
\* calls made by the myconfig_newdir harness
MaxNewdirCalls == 2

(***************************************************************************)
(* Values                                                                  *)
(***************************************************************************)
NoValue == "<unset>"
NoStatus == -1
Passwords == {"pw_a", "pw_b"}
Usernames == {"admin"}

\* the list iterated by the main loop
MainModes == <<"panos", "panorama">>
\* the modes replace_variables has a branch for
SupportedModes == {"panos", "panorama"}
\* modes replace_variables may be handed; "vpn" stands for any other mode
AllModes == SupportedModes \cup {"vpn"}

\* xmlvar['MYCONFIG_DIR'] and archive_time of the run
MYCONFIG_DIR == "cfg"
archive_time == "t0"

\* the global config_type read by myconfig_newdir: the loop variable of the main loop
config_type == IF modeIdx \in 1..Len(modes) THEN modes[modeIdx] ELSE NoValue

\* <mode>_snippet_load_order.<mode>_gold_template_dict: ordered snippet names
LoadOrder(ct) == [i \in 1..NumEntries |-> <<ct, i>>]
\* filename = 'iron_skillet_day1_template.xml'
FullTemplateName == <<"iron_skillet_day1_template", 0>>
VariablesFileName == <<"my_variables", 0>>

(***************************************************************************)
(* Paths                                                                   *)
(***************************************************************************)
\* myconfigpath = abspath(join('..', 'my_configs'))
MyConfigPath == <<"my_configs">>
\* myconfigdir = f'{myconfigpath}/{myconfigdir_name}-{foldertime}'
MyConfigDir(name, foldertime) == <<"my_configs", <<name, foldertime>>>>
ModeDir(base, ct) == Append(base, ct)
CategoryDir(base, ct, render_type) == Append(Append(base, ct), render_type)
Parent(p) == SubSeq(p, 1, Len(p) - 1)

ArchiveRoot == MyConfigDir(MYCONFIG_DIR, archive_time)

AllDirs ==
    {MyConfigPath, ArchiveRoot}
      \cup {ModeDir(ArchiveRoot, m) : m \in SupportedModes}
      \cup {CategoryDir(ArchiveRoot, m, c) : m \in SupportedModes, c \in {"snippets", "full"}}

\* directory trees: every directory's parent exists ('..' always exists)
ParentClosed(D) == \A p \in D : Len(p) > 1 => Parent(p) \in D
InitialTrees == {D \in SUBSET AllDirs : ParentClosed(D)}

TemplateId(ct, render_type, filename) ==
    [ct |-> ct, render_type |-> render_type, filename |-> filename]
AllTemplates ==
    {TemplateId(m, "snippets", LoadOrder(m)[i]) : m \in SupportedModes, i \in 1..NumEntries}
      \cup {TemplateId(m, "full", FullTemplateName) : m \in SupportedModes}

FileAt(F, dir, filename) == {f \in F : f.dir = dir /\ f.filename = filename}
NoElement == [src |-> <<NoValue, 0>>, tag |-> NoValue]
\* a my_variables.py left in the archive folder by something earlier than this run
EarlierCopy == [dir |-> ArchiveRoot, filename |-> VariablesFileName,
                content |-> [src |-> VariablesFileName, tag |-> "earlier"]]

Min(a, b) == IF a < b THEN a ELSE b
Event(ev, ct, idx) == [ev |-> ev, mode |-> ct, idx |-> idx]

(***************************************************************************)
(* myconfig_newdir: os.mkdir raises when the directory exists or its       *)
(* parent is missing; the function only calls it behind isdir checks.      *)
(***************************************************************************)
Mkdir(st, p) ==
    IF st.err THEN st
    ELSE IF p \in st.dirs \/ (Len(p) > 1 /\ Parent(p) \notin st.dirs)
         THEN [st EXCEPT !.err = TRUE]
         ELSE [st EXCEPT !.dirs = @ \cup {p}]

\* variant: the archive folder is made without the isdir check in front
myconfig_newdir_unchecked(D, myconfigdir_name, foldertime, ct) ==
    LET myconfigdir == MyConfigDir(myconfigdir_name, foldertime)
        s0 == [dirs |-> D, err |-> FALSE]
        s1 == IF MyConfigPath \notin s0.dirs THEN Mkdir(s0, MyConfigPath) ELSE s0
        s2 == Mkdir(s1, myconfigdir)
        s3 == IF ModeDir(myconfigdir, ct) \notin s2.dirs
              THEN Mkdir(Mkdir(Mkdir(s2, ModeDir(myconfigdir, ct)),
                               CategoryDir(myconfigdir, ct, "snippets")),
                         CategoryDir(myconfigdir, ct, "full"))
              ELSE s2
    IN  [dirs |-> s3.dirs, err |-> s3.err, ret |-> myconfigdir]

myconfig_newdir(D, myconfigdir_name, foldertime, ct) ==
    LET myconfigdir == MyConfigDir(myconfigdir_name, foldertime)
        s0 == [dirs |-> D, err |-> FALSE]
        s1 == IF MyConfigPath \notin s0.dirs THEN Mkdir(s0, MyConfigPath) ELSE s0
        s2 == IF myconfigdir \notin s1.dirs THEN Mkdir(s1, myconfigdir) ELSE s1
        s3 == IF ModeDir(myconfigdir, ct) \notin s2.dirs
              THEN Mkdir(Mkdir(Mkdir(s2, ModeDir(myconfigdir, ct)),
                               CategoryDir(myconfigdir, ct, "snippets")),
                         CategoryDir(myconfigdir, ct, "full"))
              ELSE s2
    IN  [dirs |-> s3.dirs, err |-> s3.err, ret |-> myconfigdir]

(***************************************************************************)
(* template_render: env.get_template raises TemplateNotFound when the      *)
(* file is not under <template_path>/<render_type>; the rendered text is   *)
(* a function of the template and of xmlvar.                               *)
(***************************************************************************)
template_render(T, ct, filename, render_type, xv) ==
    IF TemplateId(ct, render_type, filename) \in T
    THEN [ok |-> TRUE,
          element |-> [src |-> filename, tag |-> xv.ADMINISTRATOR_PASSWORD]]
    ELSE [ok |-> FALSE, element |-> NoElement]

(***************************************************************************)
(* template_save: open(..., 'w') raises when the category directory is     *)
(* missing, otherwise (over)writes the file; then my_variables.py is       *)
(* copied into myconfigdir unless a file of that name is already there.    *)
(***************************************************************************)
\* variant: my_variables.py is copied by every save
template_save_always_copy(D, F, snippet_name, myconfigdir, ct, elem, render_type) ==
    LET target == CategoryDir(myconfigdir, ct, render_type)
        written == (F \ FileAt(F, target, snippet_name))
                     \cup {[dir |-> target, filename |-> snippet_name, content |-> elem]}
    IN  IF target \notin D
        THEN [ok |-> FALSE, files |-> F, copied |-> FALSE]
        ELSE [ok |-> TRUE,
              files |-> (written \ FileAt(written, myconfigdir, VariablesFileName))
                          \cup {[dir |-> myconfigdir, filename |-> VariablesFileName,
                                 content |-> [src |-> VariablesFileName, tag |-> "current"]]},
              copied |-> TRUE]

template_save(D, F, snippet_name, myconfigdir, ct, elem, render_type) ==
    LET target == CategoryDir(myconfigdir, ct, render_type)
        written == (F \ FileAt(F, target, snippet_name))
                     \cup {[dir |-> target, filename |-> snippet_name, content |-> elem]}
        copy == FileAt(written, myconfigdir, VariablesFileName) = {}
    IN  IF target \notin D
        THEN [ok |-> FALSE, files |-> F, copied |-> FALSE]
        ELSE [ok |-> TRUE,
              files |-> IF copy
                        THEN written \cup
                               {[dir |-> myconfigdir, filename |-> VariablesFileName,
                                 content |-> [src |-> VariablesFileName, tag |-> "current"]]}
                        ELSE written,
              copied |-> copy]

(***************************************************************************)
(* replace_variables, lines 175-183: the import of the mode's load-order   *)
(* module, then the branch that picks the dict or gives up.                *)
(***************************************************************************)
\* variant: no else branch, any mode that is not panorama is taken as panos
select_snippet_dict_no_else(ct) ==
    IF ct = "panorama" THEN [ok |-> TRUE, dict |-> LoadOrder("panorama")]
    ELSE [ok |-> TRUE, dict |-> LoadOrder("panos")]

select_snippet_dict(ct) ==
    IF ct = "panos" THEN [ok |-> TRUE, dict |-> LoadOrder("panos")]
    ELSE IF ct = "panorama" THEN [ok |-> TRUE, dict |-> LoadOrder("panorama")]
    ELSE [ok |-> FALSE, dict |-> <<>>]

\* os.path.exists(snippet_path)
snippet_exists(T, ct, snippet_name) == TemplateId(ct, "snippets", snippet_name) \in T

\* variant: the comparison always succeeds
passwords_equal_always(p1, p2) == TRUE

\* password1 == password2
passwords_equal(p1, p2) == p1 = p2

(***************************************************************************)
(* Initial states                                                          *)
(***************************************************************************)
InitProgram ==
    /\ pc = "username"
    /\ modeIdx = 0
    /\ snippet_dict = <<>>
    /\ entryIdx = 0
    /\ element = NoElement
    /\ myconfig_path = <<>>
    /\ xmlvar = [MYCONFIG_DIR |-> MYCONFIG_DIR,
                 ADMINISTRATOR_USERNAME |-> NoValue,
                 ADMINISTRATOR_PASSWORD |-> NoValue]
    /\ password1 = NoValue
    /\ password2 = NoValue
    /\ passwordmatch = FALSE
    /\ rounds = 0
    /\ exitStatus = NoStatus
    /\ log = <<>>
    /\ newdirLog = <<>>
    /\ provCopies = 0

InitEnvironment ==
    /\ dirs \in InitialTrees
    /\ files \in IF ArchiveRoot \in dirs THEN {{}, {EarlierCopy}} ELSE {{}}
    /\ templates \in SUBSET AllTemplates

\* the script as shipped: the main loop iterates panos, panorama, whose
\* load-order modules are part of the repository
Init ==
    /\ InitProgram
    /\ InitEnvironment
    /\ modes = MainModes
    /\ importable = SupportedModes

\* replace_variables handed an arbitrary mode; a load-order module for a
\* mode the script has no branch for may or may not be on the path
InitCall ==
    /\ InitProgram
    /\ InitEnvironment
    /\ modes \in {<<m>> : m \in AllModes}
    /\ importable \in {SupportedModes \cup X : X \in SUBSET (AllModes \ SupportedModes)}

(***************************************************************************)
(* __main__                                                                *)
(***************************************************************************)
Crash ==
    /\ pc' = "crashed"
    /\ exitStatus' = 1

\* line 234
Username ==
    /\ pc = "username"
    /\ \E u \in Usernames : xmlvar' = [xmlvar EXCEPT !.ADMINISTRATOR_USERNAME = u]
    /\ pc' = "prompt"
    /\ UNCHANGED <<modes, modeIdx, snippet_dict, entryIdx, element, myconfig_path,
                   dirs, files, templates, importable,
                   password1, password2, passwordmatch, rounds,
                   exitStatus, log, newdirLog, provCopies>>

\* lines 240-247: one round of the while loop
PromptRound ==
    /\ pc = "prompt"
    /\ \E p1 \in Passwords, p2 \in Passwords :
         /\ password1' = p1
         /\ password2' = p2
         /\ IF passwords_equal(p1, p2)
            THEN /\ xmlvar' = [xmlvar EXCEPT !.ADMINISTRATOR_PASSWORD = p1]
                 /\ passwordmatch' = TRUE
                 /\ pc' = "for_mode"
                 /\ log' = Append(log, Event("credentials", NoValue, 0))
            ELSE /\ pc' = "prompt"
                 /\ UNCHANGED <<xmlvar, passwordmatch, log>>
    /\ rounds' = Min(rounds + 1, MaxRounds)
    /\ UNCHANGED <<modes, modeIdx, snippet_dict, entryIdx, element, myconfig_path,
                   dirs, files, templates, importable,
                   exitStatus, newdirLog, provCopies>>

\* variant: the loop ends after the first config type
ForMode_StopAfterFirst ==
    /\ pc = "for_mode"
    /\ IF modeIdx >= 1
       THEN /\ pc' = "done"
            /\ exitStatus' = 0
            /\ log' = Append(log, Event("done", NoValue, 0))
            /\ UNCHANGED modeIdx
       ELSE /\ pc' = "resolve"
            /\ modeIdx' = modeIdx + 1
            /\ UNCHANGED <<exitStatus, log>>
    /\ UNCHANGED <<modes, snippet_dict, entryIdx, element, myconfig_path,
                   dirs, files, templates, importable, xmlvar,
                   password1, password2, passwordmatch, rounds,
                   newdirLog, provCopies>>

\* line 250: head of the for loop over the config types
ForMode ==
    /\ pc = "for_mode"
    /\ IF modeIdx = Len(modes)
       THEN /\ pc' = "done"
            /\ exitStatus' = 0
            /\ log' = Append(log, Event("done", NoValue, 0))
            /\ UNCHANGED modeIdx
       ELSE /\ pc' = "resolve"
            /\ modeIdx' = modeIdx + 1
            /\ UNCHANGED <<exitStatus, log>>
    /\ UNCHANGED <<modes, snippet_dict, entryIdx, element, myconfig_path,
                   dirs, files, templates, importable, xmlvar,
                   password1, password2, passwordmatch, rounds,
                   newdirLog, provCopies>>

(***************************************************************************)
(* replace_variables                                                       *)
(***************************************************************************)
\* lines 169-183: __import__ raises for a missing module; the else branch
\* prints and calls sys.exit() with no argument, i.e. exit status 0
ResolveOrder ==
    /\ pc = "resolve"
    /\ IF config_type \notin importable
       THEN /\ Crash
            /\ UNCHANGED <<snippet_dict, entryIdx, log>>
       ELSE IF select_snippet_dict(config_type).ok
       THEN /\ snippet_dict' = select_snippet_dict(config_type).dict
            /\ entryIdx' = 0
            /\ pc' = "newdir"
            /\ log' = Append(log, Event("resolve", config_type, 0))
            /\ UNCHANGED exitStatus
       ELSE /\ pc' = "exited"
            /\ exitStatus' = 0
            /\ UNCHANGED <<snippet_dict, entryIdx, log>>
    /\ UNCHANGED <<modes, modeIdx, element, myconfig_path,
                   dirs, files, templates, importable, xmlvar,
                   password1, password2, passwordmatch, rounds,
                   newdirLog, provCopies>>

NewdirRecord(ct, before, r) ==
    [ct |-> ct, before |-> before, after |-> r.dirs, ret |-> r.ret, err |-> r.err]

\* line 185
MyconfigNewdir ==
    /\ pc = "newdir"
    /\ LET r == myconfig_newdir(dirs, xmlvar.MYCONFIG_DIR, archive_time, config_type)
       IN  /\ dirs' = r.dirs
           /\ newdirLog' = Append(newdirLog, NewdirRecord(config_type, dirs, r))
           /\ IF r.err
              THEN /\ Crash
                   /\ UNCHANGED myconfig_path
              ELSE /\ myconfig_path' = r.ret
                   /\ pc' = "for_entry"
                   /\ UNCHANGED exitStatus
    /\ UNCHANGED <<modes, modeIdx, snippet_dict, entryIdx, element,
                   files, templates, importable, xmlvar,
                   password1, password2, passwordmatch, rounds,
                   log, provCopies>>

\* variant: a missing snippet ends the loop (break instead of continue)
ForEntry_BreakOnMissing ==
    /\ pc = "for_entry"
    /\ IF entryIdx = Len(snippet_dict)
       THEN /\ pc' = "render_full"
            /\ UNCHANGED <<entryIdx, log>>
       ELSE /\ entryIdx' = entryIdx + 1
            /\ IF snippet_exists(templates, config_type, snippet_dict[entryIdx + 1])
               THEN /\ pc' = "render_snippet"
                    /\ UNCHANGED log
               ELSE /\ pc' = "render_full"
                    /\ log' = Append(log, Event("skip", config_type, entryIdx + 1))
    /\ UNCHANGED <<modes, modeIdx, snippet_dict, element, myconfig_path,
                   dirs, files, templates, importable, xmlvar,
                   password1, password2, passwordmatch, rounds,
                   exitStatus, newdirLog, provCopies>>

\* lines 188-200: head of the for loop over the load order, with the
\* existence check that skips a snippet whose template file is missing
ForEntry ==
    /\ pc = "for_entry"
    /\ IF entryIdx = Len(snippet_dict)
       THEN /\ pc' = "render_full"
            /\ UNCHANGED <<entryIdx, log>>
       ELSE /\ entryIdx' = entryIdx + 1
            /\ IF snippet_exists(templates, config_type, snippet_dict[entryIdx + 1])
               THEN /\ pc' = "render_snippet"
                    /\ UNCHANGED log
               ELSE /\ pc' = "for_entry"
                    /\ log' = Append(log, Event("skip", config_type, entryIdx + 1))
    /\ UNCHANGED <<modes, modeIdx, snippet_dict, element, myconfig_path,
                   dirs, files, templates, importable, xmlvar,
                   password1, password2, passwordmatch, rounds,
                   exitStatus, newdirLog, provCopies>>

\* line 203
RenderSnippet ==
    /\ pc = "render_snippet"
    /\ LET r == template_render(templates, config_type, snippet_dict[entryIdx],
                                "snippets", xmlvar)
       IN  /\ element' = r.element
           /\ IF r.ok
              THEN /\ pc' = "save_snippet"
                   /\ UNCHANGED exitStatus
              ELSE Crash
    /\ log' = Append(log, Event("render", config_type, entryIdx))
    /\ UNCHANGED <<modes, modeIdx, snippet_dict, entryIdx, myconfig_path,
                   dirs, files, templates, importable, xmlvar,
                   password1, password2, passwordmatch, rounds,
                   newdirLog, provCopies>>

\* line 204
SaveSnippet ==
    /\ pc = "save_snippet"
    /\ LET r == template_save(dirs, files, snippet_dict[entryIdx], myconfig_path,
                              config_type, element, "snippets")
       IN  /\ files' = r.files
           /\ provCopies' = IF r.copied THEN provCopies + 1 ELSE provCopies
           /\ IF r.ok
              THEN /\ pc' = "for_entry"
                   /\ log' = Append(log, Event("save", config_type, entryIdx))
                   /\ UNCHANGED exitStatus
              ELSE /\ Crash
                   /\ UNCHANGED log
    /\ UNCHANGED <<modes, modeIdx, snippet_dict, entryIdx, element, myconfig_path,
                   dirs, templates, importable, xmlvar,
                   password1, password2, passwordmatch, rounds,
                   newdirLog>>

\* variant: a missing full template is skipped like a missing snippet
RenderFull_SkipMissing ==
    /\ pc = "render_full"
    /\ LET r == template_render(templates, config_type, FullTemplateName, "full", xmlvar)
       IN  /\ element' = r.element
           /\ pc' = IF r.ok THEN "save_full" ELSE "for_mode"
           /\ UNCHANGED exitStatus
    /\ log' = Append(log, Event("render_full", config_type, 0))
    /\ UNCHANGED <<modes, modeIdx, snippet_dict, entryIdx, myconfig_path,
                   dirs, files, templates, importable, xmlvar,
                   password1, password2, passwordmatch, rounds,
                   newdirLog, provCopies>>

\* lines 208-210
RenderFull ==
    /\ pc = "render_full"
    /\ LET r == template_render(templates, config_type, FullTemplateName, "full", xmlvar)
       IN  /\ element' = r.element
           /\ IF r.ok
              THEN /\ pc' = "save_full"
                   /\ UNCHANGED exitStatus
              ELSE Crash
    /\ log' = Append(log, Event("render_full", config_type, 0))
    /\ UNCHANGED <<modes, modeIdx, snippet_dict, entryIdx, myconfig_path,
                   dirs, files, templates, importable, xmlvar,
                   password1, password2, passwordmatch, rounds,
                   newdirLog, provCopies>>

\* lines 211-217
SaveFull ==
    /\ pc = "save_full"
    /\ LET r == template_save(dirs, files, FullTemplateName, myconfig_path,
                              config_type, element, "full")
       IN  /\ files' = r.files
           /\ provCopies' = IF r.copied THEN provCopies + 1 ELSE provCopies
           /\ IF r.ok
              THEN /\ pc' = "for_mode"
                   /\ log' = Append(log, Event("save_full", config_type, 0))
                   /\ UNCHANGED exitStatus
              ELSE /\ Crash
                   /\ UNCHANGED log
    /\ UNCHANGED <<modes, modeIdx, snippet_dict, entryIdx, element, myconfig_path,
                   dirs, templates, importable, xmlvar,
                   password1, password2, passwordmatch, rounds,
                   newdirLog>>

Next ==
    \/ Username
    \/ PromptRound
    \/ ForMode
    \/ ResolveOrder
    \/ MyconfigNewdir
    \/ ForEntry
    \/ RenderSnippet
    \/ SaveSnippet
    \/ RenderFull
    \/ SaveFull

\* the script run as __main__
Spec == Init /\ [][Next]_vars

\* the same run with replace_variables called for one arbitrary mode
SpecCall == InitCall /\ [][Next]_vars

(***************************************************************************)
(* myconfig_newdir called repeatedly on an arbitrary directory tree        *)
(***************************************************************************)
InitNewdir ==
    /\ InitProgram
    /\ dirs \in InitialTrees
    /\ files = {}
    /\ templates = {}
    /\ modes = <<>>
    /\ importable = SupportedModes

\* the program has not started: pc stays at its initial value
NewdirCall ==
    /\ pc = "username"
    /\ Len(newdirLog) < MaxNewdirCalls
    /\ \E ct \in SupportedModes :
         LET r == myconfig_newdir(dirs, xmlvar.MYCONFIG_DIR, archive_time, ct)
         IN  /\ dirs' = r.dirs
             /\ newdirLog' = Append(newdirLog, NewdirRecord(ct, dirs, r))
             /\ myconfig_path' = IF r.err THEN myconfig_path ELSE r.ret
             /\ pc' = IF r.err THEN "crashed" ELSE pc
             /\ exitStatus' = IF r.err THEN 1 ELSE exitStatus
    /\ UNCHANGED <<modes, modeIdx, snippet_dict, entryIdx, element,
                   files, templates, importable, xmlvar,
                   password1, password2, passwordmatch, rounds,
                   log, provCopies>>

NextNewdir == NewdirCall

SpecNewdir == InitNewdir /\ [][NextNewdir]_vars

(***************************************************************************)
(* Properties                                                              *)
(***************************************************************************)
Terminal == {"done", "exited", "crashed"}
HasEvent(e) == \E k \in 1..Len(log) : log[k] = e
VariablesCopy == FileAt(files, ArchiveRoot, VariablesFileName)
SnippetFile(ct, i) == FileAt(files, CategoryDir(ArchiveRoot, ct, "snippets"), LoadOrder(ct)[i])
FullFile(ct) == FileAt(files, CategoryDir(ArchiveRoot, ct, "full"), FullTemplateName)

\* C1: replace_variables handed a mode other than panos/panorama ends the
\* run at once (sys.exit or the failed import) without creating a directory
\* or writing any file; handed panos or panorama it takes that mode's
\* load-order dict and goes on to myconfig_newdir.  Nothing follows an abort.
C1_UnsupportedModeAborts ==
    /\ [][pc = "resolve" =>
            IF config_type \notin SupportedModes
            THEN /\ pc' \in {"exited", "crashed"}
                 /\ dirs' = dirs
                 /\ files' = files
                 /\ provCopies' = provCopies
                 /\ newdirLog' = newdirLog
            ELSE /\ pc' = "newdir"
                 /\ snippet_dict' = LoadOrder(config_type)]_vars
    /\ [][pc \notin Terminal]_vars
    /\ []((modeIdx > 0 /\ config_type \notin SupportedModes)
            => /\ pc \in {"resolve", "exited", "crashed"}
               /\ newdirLog = <<>>
               /\ \A k \in 1..Len(log) : log[k].mode # config_type)

C1_Witness ==
    /\ pc = "exited"
    /\ config_type = "vpn"
    /\ newdirLog = <<>>
    /\ passwordmatch

\* C2: a run ends either Done with success or, on an unsupported mode, in an
\* abort with a non-zero exit status; an unsupported-mode abort never exits 0.
C2_TerminalStates ==
    pc \in Terminal =>
        \/ pc = "done" /\ exitStatus = 0
        \/ config_type \notin SupportedModes /\ exitStatus # 0

\* C3: a load-order entry whose snippet template is missing is skipped: no
\* file is written for it, the run is not terminated, the loop moves to the
\* next entry; by the time the full configuration is rendered every entry of
\* the mode has been visited, the present ones saved and the missing ones not.
C3_MissingSnippetSkipped ==
    /\ [][(/\ pc = "for_entry"
           /\ entryIdx < Len(snippet_dict)
           /\ TemplateId(config_type, "snippets", snippet_dict[entryIdx + 1]) \notin templates)
          => /\ pc' = "for_entry"
             /\ entryIdx' = entryIdx + 1
             /\ files' = files
             /\ exitStatus' = NoStatus]_vars
    /\ [](\A k \in 1..Len(log) :
            log[k].ev = "render_full" =>
              \A i \in 1..Len(LoadOrder(log[k].mode)) :
                IF TemplateId(log[k].mode, "snippets", LoadOrder(log[k].mode)[i]) \in templates
                THEN /\ SnippetFile(log[k].mode, i) # {}
                     /\ \E j \in 1..(k - 1) : log[j] = Event("save", log[k].mode, i)
                ELSE /\ SnippetFile(log[k].mode, i) = {}
                     /\ \E j \in 1..(k - 1) : log[j] = Event("skip", log[k].mode, i))

C3_Witness ==
    /\ pc = "done"
    /\ HasEvent(Event("skip", "panos", 1))
    /\ HasEvent(Event("save", "panos", 2))
    /\ SnippetFile("panos", 1) = {}
    /\ SnippetFile("panos", 2) # {}
    /\ FullFile("panos") # {}

\* C4: myconfig_newdir called twice in a row with the same arguments returns
\* the same path both times, does not fail the second time, and the second
\* call leaves the directory tree as the first call left it.
C4_NewdirIdempotent ==
    \A k \in 2..Len(newdirLog) :
        (newdirLog[k].ct = newdirLog[k - 1].ct /\ ~newdirLog[k - 1].err)
          => /\ ~newdirLog[k].err
             /\ newdirLog[k].ret = newdirLog[k - 1].ret
             /\ newdirLog[k].after = newdirLog[k - 1].after

C4_Witness ==
    /\ Len(newdirLog) = 2
    /\ newdirLog[1].ct = newdirLog[2].ct
    /\ ~newdirLog[1].err
    /\ newdirLog[1].before = {MyConfigPath}
    /\ newdirLog[1].after # newdirLog[1].before

\* C5: whatever part of the archive tree existed before, when
\* myconfig_newdir returns both <archive>/<mode>/snippets and
\* <archive>/<mode>/full exist.
C5_CategoryDirsExistOnReturn ==
    \A k \in 1..Len(newdirLog) :
        ~newdirLog[k].err =>
            /\ CategoryDir(newdirLog[k].ret, newdirLog[k].ct, "snippets") \in newdirLog[k].after
            /\ CategoryDir(newdirLog[k].ret, newdirLog[k].ct, "full") \in newdirLog[k].after

\* C6: over a whole run my_variables.py is copied into the archive folder at
\* most once, by a save that finds it absent; a copy that is there is never
\* touched again; once any save has completed the copy is there.
C6_VariablesCopiedOnce ==
    /\ [](provCopies <= 1)
    /\ []((\E k \in 1..Len(log) : log[k].ev \in {"save", "save_full"}) => VariablesCopy # {})
    /\ [][VariablesCopy # {} =>
            /\ FileAt(files', ArchiveRoot, VariablesFileName) = VariablesCopy
            /\ provCopies' = provCopies]_vars
    /\ [][provCopies' # provCopies =>
            /\ VariablesCopy = {}
            /\ pc \in {"save_snippet", "save_full"}
            /\ provCopies' = provCopies + 1
            /\ FileAt(files', ArchiveRoot, VariablesFileName) # {}]_vars

C6_Witness ==
    /\ pc = "done"
    /\ provCopies = 1
    /\ HasEvent(Event("save", "panos", 1))
    /\ HasEvent(Event("save", "panos", 2))
    /\ HasEvent(Event("save_full", "panorama", 0))

\* C7: the run is credentials, then panos, then panorama, then done; within
\* a mode: resolve, the entries in load order (each render immediately
\* followed by its save), and the full configuration rendered and saved
\* only after the last entry.
C7_RunOrder ==
    \A k \in 1..Len(log) :
        LET e == log[k]
            prev == log[k - 1]
            last == Len(LoadOrder(e.mode))
        IN  /\ (e.ev = "credentials") <=> (k = 1)
            /\ e.ev = "resolve" =>
                 /\ e.mode = "panos" => k = 2
                 /\ e.mode = "panorama" => prev = Event("save_full", "panos", 0)
            /\ e.ev \in {"render", "skip"} =>
                 /\ e.idx \in 1..last
                 /\ e.idx = 1 => prev = Event("resolve", e.mode, 0)
                 /\ e.idx > 1 => prev \in {Event("save", e.mode, e.idx - 1),
                                           Event("skip", e.mode, e.idx - 1)}
            /\ e.ev = "render" /\ k < Len(log) => log[k + 1] = Event("save", e.mode, e.idx)
            /\ e.ev = "save" => prev = Event("render", e.mode, e.idx)
            /\ e.ev = "render_full" => prev \in {Event("save", e.mode, last),
                                                 Event("skip", e.mode, last)}
            /\ e.ev = "save_full" => prev = Event("render_full", e.mode, 0)
            /\ e.mode = "panorama" =>
                 \E j \in 1..(k - 1) : log[j] = Event("save_full", "panos", 0)
            /\ e.ev = "done" =>
                 /\ k = Len(log)
                 /\ prev = Event("save_full", "panorama", 0)
            /\ e.mode \in {"panos", "panorama", NoValue}

C7_Witness ==
    /\ pc = "done"
    /\ Len(log) = 2 + 2 * (3 + 2 * NumEntries)
    /\ \A m \in SupportedModes : \A i \in 1..NumEntries : HasEvent(Event("save", m, i))

\* C8: ADMINISTRATOR_PASSWORD is set only by a round whose two entries are
\* equal, to that entry; a round with unequal entries leaves it unset and
\* prompting goes on; nothing is resolved, rendered or created before a
\* matching round; after a matching round there is no further prompt.
C8_PasswordPrompt ==
    /\ [](xmlvar.ADMINISTRATOR_PASSWORD # NoValue =>
            /\ passwordmatch
            /\ password1 = password2
            /\ xmlvar.ADMINISTRATOR_PASSWORD = password1)
    /\ [][(pc = "prompt" /\ password1' # password2') =>
            /\ pc' = "prompt"
            /\ xmlvar'.ADMINISTRATOR_PASSWORD = NoValue
            /\ ~passwordmatch']_vars
    /\ [](~passwordmatch =>
            /\ pc \in {"username", "prompt"}
            /\ log = <<>>
            /\ newdirLog = <<>>
            /\ snippet_dict = <<>>
            /\ element = NoElement
            /\ modeIdx = 0)
    /\ [][~passwordmatch => (dirs' = dirs /\ files' = files)]_vars
    /\ [][passwordmatch =>
            UNCHANGED <<password1, password2, passwordmatch, rounds, xmlvar>>]_vars

C8_Witness ==
    /\ pc = "done"
    /\ rounds >= 2
    /\ xmlvar.ADMINISTRATOR_PASSWORD = "pw_b"

\* C9: when the full-configuration template of a mode is missing the render
\* ends the run: no full file is written for the mode, Done is not reached
\* and nothing of a later mode happens.
C9_MissingFullTemplateFatal ==
    \A k \in 1..Len(log) :
        (log[k].ev = "render_full"
           /\ TemplateId(log[k].mode, "full", FullTemplateName) \notin templates)
          => /\ k = Len(log)
             /\ pc = "crashed"
             /\ exitStatus # 0
             /\ config_type = log[k].mode
             /\ FullFile(log[k].mode) = {}

C9_Witness ==
    /\ pc = "crashed"
    /\ config_type = "panos"
    /\ log[Len(log)] = Event("render_full", "panos", 0)
    /\ HasEvent(Event("skip", "panos", 1))
    /\ HasEvent(Event("save", "panos", 2))

====
